---------------------------- MODULE Spec2Model ----------------------------
(***************************************************************************)
(* Web-Crawler: the crawl orchestration engine of                          *)
(* backend/app/services/crawler_service.py (WebCrawlerService), the        *)
(* connection manager of backend/app/core/database.py and the crawler      *)
(* endpoints of backend/app/api/crawler.py.                                *)
(*                                                                         *)
(* The relational store is a record of tables.  A connection works on a    *)
(* private copy of the tables; only commit() publishes the copy, and       *)
(* closing a connection without commit() discards it (sqlite3 rolls an     *)
(* open transaction back on close).  A write transaction holds the store's *)
(* write lock from its first statement to its end, so each transaction is  *)
(* one step.                                                               *)
(***************************************************************************)
EXTENDS Integers, Sequences, FiniteSets, TLC

\* ------------------------------------------------------------------ bounds
NumAddr == 2          \* size of the address universe the generator draws from
MaxStarts == 2        \* POST /crawl/start requests that schedule start_crawling

\* settings (core/config.py), scaled down
max_threads == 1
batch_size == 1

maxlen == 2           \* capacity of recent_events, scaled down
MaxPushed == 4        \* events appended to recent_events in one run
MaxCount == 2         \* largest count asked of generate_random_ips
MaxLimit == 2         \* largest limit of a search
MaxEventsLimit == 3   \* largest limit asked of get_recent_events
MaxOffset == 1        \* largest offset of a search

Addr == 1..NumAddr
Orchs == 1..MaxStarts
Workers == 1..(MaxStarts * max_threads)
WorkersOf(o) == ((o - 1) * max_threads + 1)..(o * max_threads)

Sentinel == 0         \* the None put on task_queue by stop_crawling
NoIp == 0             \* no address held
NULL == 0             \* SQL NULL in a numeric column
NoDomain == ""        \* SQL NULL in hosts.domain

\* ------------------------------------------------------- probe results
\* crawl_ip returns a dict (always truthy) or None.  keywords is the list of
\* (keyword, frequency) pairs of extract_keywords: distinct keywords.
\* some = FALSE is Python's None.
NoResult == [some |-> FALSE, status_code |-> NULL, keywords |-> << >>]
ProbeResults ==
    { [some |-> TRUE, status_code |-> 200, keywords |-> << >>],
      [some |-> TRUE, status_code |-> 404,
       keywords |-> << <<"k1", 1>>, <<"k2", 3>> >>] }

\* ------------------------------------------------------------- the store
\* Table shapes, constraints and column defaults come from schema.sql.
QueueIpUnique == TRUE                 \* crawl_queue.ip_address is UNIQUE
DefaultQueueStatus == "pending"
DefaultTotalOccurrences == 0
DefaultTotalCrawled == 0

\* crawl_queue: ip_address -> the statuses of the rows holding it, in insertion
\* order (ip_address is UNIQUE: at most one row).
EmptyDb ==
    [ crawl_queue   |-> [a \in Addr |-> << >>],
      hosts         |-> {},
      pages         |-> {},
      keywords      |-> {},
      page_keywords |-> {},
      crawl_state   |-> {},
      search_history |-> << >> ]

Max(S) == IF S = {} THEN 0 ELSE CHOOSE x \in S : \A y \in S : y <= x
NextId(rows) == Max({r.id : r \in rows}) + 1

\* Mutant: INSERT OR REPLACE, which resets the row of a known address.
InsertOrReplaceQueue(q, ip) == [q EXCEPT ![ip] = << DefaultQueueStatus >>]

\* INSERT OR IGNORE INTO crawl_queue (ip_address) VALUES (?)
InsertOrIgnoreQueue(q, ip) ==
    IF QueueIpUnique /\ q[ip] # << >> THEN q
    ELSE [q EXCEPT ![ip] = Append(@, DefaultQueueStatus)]

RECURSIVE InsertAllQueue(_, _)
InsertAllQueue(q, ips) ==
    IF ips = {} THEN q
    ELSE LET ip == CHOOSE x \in ips : TRUE
         IN InsertAllQueue(InsertOrIgnoreQueue(q, ip), ips \ {ip})

\* populate_queue's transaction: one INSERT OR IGNORE per generated address,
\* then commit.
PopulateQueueTx(d, ips) == [d EXCEPT !.crawl_queue = InsertAllQueue(@, ips)]

\* Rows of crawl_queue with a status, as a set of addresses.
WithStatus(q, s) == {a \in Addr : \E i \in 1..Len(q[a]) : q[a][i] = s}

\* Mutant: the UPDATE without its WHERE clause.
SetQueueStatusNoWhere(q, ip, s) == [a \in Addr |-> [i \in 1..Len(q[a]) |-> s]]

\* UPDATE crawl_queue SET status = s WHERE ip_address = ip
SetQueueStatus(q, ip, s) == [q EXCEPT ![ip] = [i \in 1..Len(@) |-> s]]

\* Mutant: the sub-select has no LIMIT.
BatchChoicesNoLimit(q, n) == {WithStatus(q, "pending")}

\* UPDATE crawl_queue SET status = 'in-progress' WHERE id IN (SELECT id FROM
\* crawl_queue WHERE status = 'pending' LIMIT n) RETURNING ip_address.
\* LIMIT without ORDER BY: any n of the pending rows.
BatchChoices(q, n) ==
    LET pend == WithStatus(q, "pending")
    IN {B \in SUBSET pend :
          Cardinality(B) = (IF Cardinality(pend) < n THEN Cardinality(pend) ELSE n)}

\* Mutant: the rows are returned but their status is not updated.
GetNextIpBatchTxNoMark(d, B) == d

\* The UPDATE of get_next_ip_batch on the selected rows B, committed.
GetNextIpBatchTx(d, B) ==
    [d EXCEPT !.crawl_queue =
        [a \in Addr |-> IF a \in B
                        THEN [i \in 1..Len(@[a]) |->
                                IF @[a][i] = "pending" THEN "in-progress" ELSE @[a][i]]
                        ELSE @[a]]]


\* ------------------------------------------------- the Writer (process_ip)
\* Mutant: the statement replaces every row of hosts.
InsertOrReplaceAllHosts(hosts, ip, is_active, status_code) ==
    {[id |-> NextId(hosts), ip |-> ip, is_active |-> is_active,
      status_code |-> status_code, domain |-> NoDomain]}

\* INSERT OR REPLACE INTO hosts: the row holding ip is deleted and a new row
\* with a fresh id is inserted; cursor.lastrowid is that id.  Columns not
\* named in the statement take their default, NULL.
InsertOrReplaceHost(hosts, ip, is_active, status_code) ==
    {h \in hosts : h.ip # ip}
        \cup {[id |-> NextId(hosts), ip |-> ip, is_active |-> is_active,
               status_code |-> status_code, domain |-> NoDomain]}

\* INSERT OR IGNORE INTO keywords (keyword) VALUES (?)
InsertOrIgnoreKeyword(keywords, k) ==
    IF \E r \in keywords : r.keyword = k THEN keywords
    ELSE keywords \cup {[id |-> NextId(keywords), keyword |-> k,
                         total_occurrences |-> DefaultTotalOccurrences]}

\* SELECT id FROM keywords WHERE keyword = ?
KeywordId(keywords, k) == (CHOOSE r \in keywords : r.keyword = k).id

\* UPDATE keywords SET total_occurrences = total_occurrences + 1 WHERE id = ?
BumpKeyword(keywords, kid) ==
    {IF r.id = kid THEN [r EXCEPT !.total_occurrences = @ + 1] ELSE r : r \in keywords}

\* The keyword loop of process_ip over result['keywords'], from position i.
RECURSIVE StoreKeywords(_, _, _, _)
StoreKeywords(d, page_id, kws, i) ==
    IF i > Len(kws) THEN d
    ELSE LET k    == kws[i][1]
             f    == kws[i][2]
             kw1  == InsertOrIgnoreKeyword(d.keywords, k)
             kid  == KeywordId(kw1, k)
             d1   == [d EXCEPT !.keywords = BumpKeyword(kw1, kid),
                               !.page_keywords = @ \cup
                                   {[page_id |-> page_id, keyword_id |-> kid,
                                     frequency |-> f]}]
         IN StoreKeywords(d1, page_id, kws, i + 1)

\* The statements of the `if result:` branch, in order.  pages.url is
\* f"http://{ip}": the address stands for it.
WriterResultTx(d, ip, r) ==
    LET host_id == NextId(d.hosts)
        page_id == NextId(d.pages)
        d1 == [d EXCEPT !.hosts = InsertOrReplaceHost(@, ip, TRUE, r.status_code),
                        !.pages = @ \cup {[id |-> page_id, host_id |-> host_id,
                                           url |-> ip,
                                           http_status |-> r.status_code]}]
        d2 == StoreKeywords(d1, page_id, r.keywords, 1)
    IN [d2 EXCEPT !.crawl_queue = SetQueueStatus(@, ip, "completed")]

\* Mutant: the entry of a failed probe is set back to 'pending'.
WriterFailedTxRequeue(d, ip) ==
    [d EXCEPT !.hosts = InsertOrReplaceHost(@, ip, FALSE, NULL),
              !.crawl_queue = SetQueueStatus(@, ip, "pending")]

\* The statements of the `else:` branch.
WriterFailedTx(d, ip) ==
    [d EXCEPT !.hosts = InsertOrReplaceHost(@, ip, FALSE, NULL),
              !.crawl_queue = SetQueueStatus(@, ip, "failed")]

WriterTx(d, ip, r) ==
    IF r.some THEN WriterResultTx(d, ip, r) ELSE WriterFailedTx(d, ip)

\* process_ip leaves the `with` block through `return True` / `return False`;
\* the conn.commit() after the if/else is never reached.
ProcessIpCommitReached == FALSE

\* get_connection after the yield: the connection is closed; what was not
\* committed is lost.
GetConnectionExit(d, tx, committed) == IF committed THEN tx ELSE d

\* ------------------------------------------------------------ crawl_state
\* INSERT OR REPLACE INTO crawl_state (id, current_network, status, start_time)
\* VALUES (1, ?, 'running', CURRENT_TIMESTAMP)
InitCrawlStateTx(d) ==
    [d EXCEPT !.crawl_state =
        {[id |-> 1, status |-> "running", total_crawled |-> DefaultTotalCrawled]}]

\* update_crawl_state: UPDATE crawl_state SET status = ?[, total_crawled = ?]
UpdateCrawlStateTx(d, status, total_crawled, with_total) ==
    [d EXCEPT !.crawl_state =
        {[r EXCEPT !.status = status,
                   !.total_crawled = IF with_total THEN total_crawled ELSE @]
           : r \in @}]

\* SELECT COUNT(*) FROM crawl_queue WHERE status = 'completed'
RECURSIVE CountRows(_, _, _)
CountRows(q, s, as) ==
    IF as = {} THEN 0
    ELSE LET a == CHOOSE x \in as : TRUE
         IN Cardinality({i \in 1..Len(q[a]) : q[a][i] = s}) + CountRows(q, s, as \ {a})
CompletedCount(d) == CountRows(d.crawl_queue, "completed", Addr)

\* get_stats: SELECT status ... FROM crawl_state WHERE id = 1; 'unknown' when
\* there is no row.
CrawlStatus(d) ==
    IF d.crawl_state = {} THEN "unknown"
    ELSE (CHOOSE r \in d.crawl_state : r.id = 1).status

\* --------------------------------------------------------------- telemetry
\* The events crawl_ip and process_ip append; the timestamp and the other
\* fields are left out.
EventTypes == {"scan_start", "detected", "failed", "error", "stored"}

\* Mutant: a full buffer refuses the new event instead of dropping the oldest.
DequeAppendDropNewest(dq, e) == IF Len(dq) >= maxlen THEN dq ELSE Append(dq, e)

\* deque(maxlen=...).append(e): when the deque is full, the item at the left
\* end is discarded.
DequeAppend(dq, e) ==
    IF Len(dq) >= maxlen THEN SubSeq(Append(dq, e), Len(dq) - maxlen + 2, Len(dq) + 1)
    ELSE Append(dq, e)

\* --------------------------------------------------------------- generator
\* An IPv4 address is its four octets; a network is an address and a prefix
\* length (ipaddress.ip_network(network, strict=False): host bits are ignored).
Pow2(n) == 2 ^ n

\* The bits of octet i (1..4) that a prefix of length len covers.
PrefixBits(len, i) ==
    LET k == len - 8 * (i - 1)
    IN IF k < 0 THEN 0 ELSE IF k > 8 THEN 8 ELSE k

\* a in net: a lies between net.network_address and net.broadcast_address.
InNetwork(a, net) ==
    \A i \in 1..4 :
        a[i] \div Pow2(8 - PrefixBits(net.len, i))
            = net.addr[i] \div Pow2(8 - PrefixBits(net.len, i))

Network(a, b, c, d, len) == [addr |-> << a, b, c, d >>, len |-> len]

\* ipaddress._IPv4Constants._private_networks and _public_network, the lists
\* behind IPv4Address.is_private and IPv4Address.is_global.
PrivateNetworks ==
    { Network(0, 0, 0, 0, 8), Network(10, 0, 0, 0, 8), Network(127, 0, 0, 0, 8),
      Network(169, 254, 0, 0, 16), Network(172, 16, 0, 0, 12),
      Network(192, 0, 0, 0, 29), Network(192, 0, 0, 170, 31),
      Network(192, 0, 2, 0, 24), Network(192, 168, 0, 0, 16),
      Network(198, 18, 0, 0, 15), Network(198, 51, 100, 0, 24),
      Network(203, 0, 113, 0, 24), Network(240, 0, 0, 0, 4),
      Network(255, 255, 255, 255, 32) }
PublicNetwork == Network(100, 64, 0, 0, 10)

IsPrivate(a) == \E net \in PrivateNetworks : InNetwork(a, net)

\* candidate.is_global
IsGlobal(a) == ~InNetwork(a, PublicNetwork) /\ ~IsPrivate(a)

\* max_attempts = count * 20
AttemptsPerAddress == 20

\* The network arguments tried, and the addresses random.randint is let to
\* draw: at least one of every class the filters tell apart.
Networks ==
    { Network(0, 0, 0, 0, 0), Network(8, 8, 8, 8, 24), Network(224, 0, 0, 0, 4),
      Network(10, 0, 0, 0, 8), Network(100, 64, 0, 0, 10), Network(1, 1, 1, 1, 32) }
SampleAddresses ==
    { << 8, 8, 8, 8 >>, << 8, 8, 8, 0 >>, << 8, 8, 8, 255 >>, << 1, 1, 1, 1 >>,
      << 0, 0, 0, 1 >>, << 10, 0, 0, 1 >>, << 100, 64, 0, 1 >>, << 127, 0, 0, 1 >>,
      << 169, 254, 1, 1 >>, << 172, 16, 0, 1 >>, << 192, 0, 0, 1 >>,
      << 192, 0, 2, 1 >>, << 192, 168, 1, 1 >>, << 198, 18, 0, 1 >>,
      << 203, 0, 113, 5 >>, << 224, 0, 0, 1 >>, << 239, 255, 255, 250 >>,
      << 240, 0, 0, 1 >>, << 255, 255, 255, 255 >> }

\* random.randint(int(net.network_address), int(net.broadcast_address))
Candidates(net) == {a \in SampleAddresses : InNetwork(a, net)}

\* No call of generate_random_ips is in progress.
GenIdle == [pc |-> "idle"]

\* ------------------------------------------------------------------ search
\* A query is the list of words query.split() yields.  len() and lower() are
\* tabulated on the words used.
Vocabulary == {"is", "the", "Server", "linux"}
WordLen == [w \in Vocabulary |->
              CASE w = "is" -> 2 [] w = "the" -> 3 [] w = "Server" -> 6 [] w = "linux" -> 5]
Lower == [w \in Vocabulary |-> IF w = "Server" THEN "server" ELSE w]
Queries ==
    { << >>, << "is" >>, << "the" >>, << "Server" >>, << "linux" >>,
      << "is", "is" >>, << "is", "Server" >>, << "Server", "linux" >>,
      << "Server", "Server" >> }

\* settings.min_keyword_length
min_keyword_length == 3

\* Mutant: the length filter is missing.
QueryTermsNoFilter(query) == [i \in 1..Len(query) |-> Lower[query[i]]]

\* [term.lower().strip() for term in query.split()
\*  if len(term.strip()) >= settings.min_keyword_length]
QueryTerms(query) ==
    LET keep == SelectSeq(query, LAMBDA w : WordLen[w] >= min_keyword_length)
    IN [i \in 1..Len(keep) |-> Lower[keep[i]]]

Range(seq) == {seq[i] : i \in 1..Len(seq)}

\* Mutant: inactive hosts are not filtered out.
SearchJoinAnyHost(d, terms) ==
    {row \in d.hosts \X d.pages \X d.page_keywords \X d.keywords :
        /\ row[1].id = row[2].host_id
        /\ row[2].id = row[3].page_id
        /\ row[3].keyword_id = row[4].id
        /\ row[4].keyword \in Range(terms)}

\* FROM hosts h JOIN pages p ON h.id = p.host_id
\*   JOIN page_keywords pk ON p.id = pk.page_id
\*   JOIN keywords k ON pk.keyword_id = k.id
\* WHERE k.keyword IN (terms) AND h.is_active = 1
SearchJoin(d, terms) ==
    {row \in d.hosts \X d.pages \X d.page_keywords \X d.keywords :
        /\ row[1].id = row[2].host_id
        /\ row[2].id = row[3].page_id
        /\ row[3].keyword_id = row[4].id
        /\ row[4].keyword \in Range(terms)
        /\ row[1].is_active}

\* SUM(pk.frequency * k.total_occurrences) over a set of joined rows
RECURSIVE SumScore(_)
SumScore(rows) ==
    IF rows = {} THEN 0
    ELSE LET row == CHOOSE x \in rows : TRUE
         IN row[3].frequency * row[4].total_occurrences + SumScore(rows \ {row})

\* GROUP BY h.id: one row per host of the join, with score and page_count
\* (COUNT(DISTINCT p.id)).
SearchGroups(d, terms) ==
    LET J == SearchJoin(d, terms)
    IN {[ip_address |-> h.ip,
         score |-> SumScore({row \in J : row[1].id = h.id}),
         page_count |-> Cardinality({row[2].id : row \in {x \in J : x[1].id = h.id}})]
          : h \in {row[1] : row \in J}}

\* ORDER BY score DESC, page_count DESC: x may come before y.
SearchOrder(x, y) ==
    \/ x.score > y.score
    \/ x.score = y.score /\ x.page_count >= y.page_count

\* The orders in which the grouped rows can come back (rows that tie on both
\* keys come in any order).
SearchRankings(d, terms) ==
    LET G == SearchGroups(d, terms)
    IN {s \in [1..Cardinality(G) -> G] :
          /\ \A i, j \in DOMAIN s : i # j => s[i] # s[j]
          /\ \A i, j \in DOMAIN s : i < j => SearchOrder(s[i], s[j])}

\* Mutant: the OFFSET is ignored.
LimitOffsetNoOffset(s, limit, offset) ==
    SubSeq(s, 1, IF limit < Len(s) THEN limit ELSE Len(s))

\* LIMIT ? OFFSET ? on the ordered rows
LimitOffset(s, limit, offset) ==
    SubSeq(s, offset + 1, IF offset + limit < Len(s) THEN offset + limit ELSE Len(s))

\* SELECT COUNT(DISTINCT h.id) over the same join
SearchTotalCount(d, terms) == Cardinality({row[1].id : row \in SearchJoin(d, terms)})

\* Mutant: the search is not logged.
LogSearchMissing(d, query, result_count) == d

\* _log_search: INSERT INTO search_history (query, result_count, search_time),
\* committed.
LogSearch(d, query, result_count) ==
    [d EXCEPT !.search_history =
        Append(@, [query |-> query, result_count |-> result_count])]

\* domain LIKE '%sub%' on the domains and substrings used; NULL matches nothing.
DomainQueries == {"example", "other"}
DomainLike(domain, sub) == domain = "a.example" /\ sub = "example"

\* Mutant: the exception reaches the caller.
SearchErrorRaised == [results |-> << >>, total_count |-> 0, error |-> FALSE,
                      raised |-> TRUE]

\* The dict of the `except Exception` clause: 'error' is present.
SearchError == [results |-> << >>, total_count |-> 0, error |-> TRUE,
                raised |-> FALSE]

\* The stores the search is run on: two hosts, three pages (the third of
\* either host), the keywords 'server' and 'linux', and per page the
\* frequency of each (0: no page_keywords row); search_history is empty or
\* holds the row of an earlier search.
SearchStore(act, owner, fs, fl, hist) ==
    [ EmptyDb EXCEPT
        !.search_history = hist,
        !.hosts = {[id |-> i, ip |-> i, is_active |-> act[i], status_code |-> 200,
                    domain |-> IF i = 1 THEN "a.example" ELSE NoDomain] : i \in 1..2},
        !.pages = {[id |-> 1, host_id |-> 1, url |-> 1, http_status |-> 200],
                   [id |-> 2, host_id |-> 2, url |-> 2, http_status |-> 200],
                   [id |-> 3, host_id |-> owner, url |-> owner, http_status |-> 200]},
        !.keywords = {[id |-> 1, keyword |-> "server", total_occurrences |-> 10],
                      [id |-> 2, keyword |-> "linux", total_occurrences |-> 30]},
        !.page_keywords =
            {[page_id |-> pg, keyword_id |-> 1, frequency |-> fs[pg]]
                : pg \in {x \in 1..3 : fs[x] > 0}}
            \cup {[page_id |-> pg, keyword_id |-> 2, frequency |-> fl[pg]]
                : pg \in {x \in 2..2 : fl[x] > 0}} ]

SearchStores ==
    {SearchStore(act, owner, fs, fl, hist) :
        act \in [1..2 -> BOOLEAN], owner \in 1..2,
        fs \in {f \in [1..3 -> {0, 2, 5}] : f[3] # 5}, fl \in [2..2 -> {0, 1}],
        hist \in {<< >>, << [query |-> << "linux" >>, result_count |-> 0] >>}}

\* No call of the search service is in progress.
SearchIdle == [pc |-> "idle"]

\* ------------------------------------------------------------------ state
VARIABLES
    db,                  \* the committed store
    active,              \* WebCrawlerService.active
    stop_event,          \* WebCrawlerService.stop_event
    threads,             \* WebCrawlerService.threads
    task_queue,          \* WebCrawlerService.task_queue: the items
    unfinished,          \* task_queue.unfinished_tasks
    currently_scanning,  \* WebCrawlerService.currently_scanning
    wpc, wip, wres,      \* worker threads: position, address, probe result
    wret, wfault,        \* process_ip: return value, store fault seen
    opc, obatch, oret,   \* start_crawling threads: position, ip_batch, return
    api,                 \* the API event loop: idle or inside stop_crawling
    nstarts,             \* start_crawling background tasks scheduled so far
    claimCount,          \* history: times get_next_ip_batch returned an address
    putCount,            \* history: times an address was put on task_queue
    probeCount,          \* history: times crawl_ip was started for an address
    stale,               \* history: for an entry that was in-progress when a
                         \* stop_crawling ended, the starts scheduled by then
    resumed,             \* history: POST /crawl/resume ended a pause and
                         \* get_next_ip_batch has returned no address since
    recent_events,       \* WebCrawlerService.recent_events
    pushed,              \* history: every event appended to recent_events
    gen,                 \* one call of generate_random_ips
    srch                 \* one call of SearchService.search / search_by_domain

vars == << db, active, stop_event, threads, task_queue, unfinished,
           currently_scanning, wpc, wip, wres, wret, wfault,
           opc, obatch, oret, api, nstarts, claimCount, putCount,
           probeCount, stale, resumed,
           recent_events, pushed, gen, srch >>

\* The variables of the telemetry buffer, of the generator call and of the
\* search call: the crawl orchestration leaves them alone.
aux == << recent_events, pushed, gen, srch >>

\* The variables of the crawl orchestration.
cvars == << db, active, stop_event, threads, task_queue, unfinished,
            currently_scanning, wpc, wip, wres, wret, wfault,
            opc, obatch, oret, api, nstarts, claimCount, putCount,
            probeCount, stale, resumed >>

svc == << active, stop_event, threads, task_queue, unfinished, currently_scanning >>
wvars == << wpc, wip, wres, wret, wfault >>
ovars == << opc, obatch, oret >>

\* The service objects after construction.
InitService ==
    /\ active = FALSE
    /\ stop_event = FALSE
    /\ threads = {}
    /\ task_queue = << >>
    /\ unfinished = 0
    /\ currently_scanning = {}
    /\ wpc = [w \in Workers |-> "unstarted"]
    /\ wip = [w \in Workers |-> NoIp]
    /\ wres = [w \in Workers |-> NoResult]
    /\ wret = [w \in Workers |-> "None"]
    /\ wfault = [w \in Workers |-> FALSE]
    /\ opc = [o \in Orchs |-> "unstarted"]
    /\ obatch = [o \in Orchs |-> {}]
    /\ oret = [o \in Orchs |-> "None"]
    /\ api = "idle"
    /\ nstarts = 0
    /\ claimCount = [a \in Addr |-> 0]
    /\ putCount = [a \in Addr |-> 0]
    /\ probeCount = [a \in Addr |-> 0]
    /\ stale = [a \in Addr |-> 0]
    /\ resumed = FALSE
    /\ recent_events = << >>
    /\ pushed = << >>
    /\ gen = GenIdle
    /\ srch = SearchIdle

Init ==
    /\ db = EmptyDb
    /\ InitService

\* ---------------------------------------------------------------- worker
\* `while not self.stop_event.is_set()`
WorkerCheck(w) ==
    /\ wpc[w] = "check"
    /\ wpc' = [wpc EXCEPT ![w] = IF stop_event THEN "exited" ELSE "get"]
    /\ UNCHANGED << db, svc, wip, wres, wret, wfault, ovars, api, nstarts,
                    claimCount, putCount, probeCount, stale, resumed, aux >>

\* Mutant: the worker reads the head of the queue and leaves an address there.
WorkerGetKeepsItem(w) ==
    /\ wpc[w] = "get"
    /\ IF task_queue = << >>
       THEN /\ wpc' = [wpc EXCEPT ![w] = "check"]
            /\ UNCHANGED << task_queue, wip, resumed, aux >>
       ELSE IF Head(task_queue) = Sentinel
            THEN /\ task_queue' = Tail(task_queue)
                 /\ wpc' = [wpc EXCEPT ![w] = "exited"]
                 /\ UNCHANGED wip
            ELSE /\ UNCHANGED task_queue
                 /\ wpc' = [wpc EXCEPT ![w] = "crawl"]
                 /\ wip' = [wip EXCEPT ![w] = Head(task_queue)]
    /\ UNCHANGED << db, active, stop_event, threads, unfinished,
                    currently_scanning, wres, wret, wfault, ovars, api, nstarts,
                    claimCount, putCount, probeCount, stale, resumed, aux >>

\* task_queue.get(timeout=5): an item, or Empty after the timeout; None ends
\* the worker.
WorkerGet(w) ==
    /\ wpc[w] = "get"
    /\ IF task_queue = << >>
       THEN /\ wpc' = [wpc EXCEPT ![w] = "check"]
            /\ UNCHANGED << task_queue, wip, resumed, aux >>
       ELSE /\ task_queue' = Tail(task_queue)
            /\ IF Head(task_queue) = Sentinel
               THEN /\ wpc' = [wpc EXCEPT ![w] = "exited"]
                    /\ UNCHANGED wip
               ELSE /\ wpc' = [wpc EXCEPT ![w] = "crawl"]
                    /\ wip' = [wip EXCEPT ![w] = Head(task_queue)]
    /\ UNCHANGED << db, active, stop_event, threads, unfinished,
                    currently_scanning, wres, wret, wfault, ovars, api, nstarts,
                    claimCount, putCount, probeCount, stale, resumed, aux >>

\* crawl_ip, up to the request: under the lock the address joins
\* currently_scanning.
CrawlIpStart(w) ==
    /\ wpc[w] = "crawl"
    /\ currently_scanning' = currently_scanning \cup {wip[w]}
    /\ wpc' = [wpc EXCEPT ![w] = "probe"]
    /\ probeCount' = [probeCount EXCEPT ![wip[w]] = @ + 1]
    /\ UNCHANGED << db, active, stop_event, threads, task_queue, unfinished,
                    wip, wres, wret, wfault, ovars, api, nstarts, claimCount,
                    putCount, stale, resumed, aux >>

\* crawl_ip, the request and the parsing: the probe returns a result dict, or
\* None on a request failure or a pipeline fault.
CrawlIp(w) ==
    /\ wpc[w] = "probe"
    /\ \E r \in ProbeResults \cup {NoResult} : wres' = [wres EXCEPT ![w] = r]
    /\ wpc' = [wpc EXCEPT ![w] = "write"]
    /\ UNCHANGED << db, active, stop_event, threads, task_queue, unfinished,
                    currently_scanning, wip, wret, wfault, ovars, api, nstarts,
                    claimCount, putCount, probeCount, stale, resumed, aux >>

\* What process_ip(ip) leaves in the store when no statement raises: the
\* statements of the taken branch run on the connection, the `return` leaves
\* the with block and get_connection closes the connection.
ProcessIpStore(d, ip, r) ==
    GetConnectionExit(d, WriterTx(d, ip, r), ProcessIpCommitReached)

\* process_ip after crawl_ip, no statement raising; the finally clause
\* discards the address from currently_scanning.
ProcessIpOk(w) ==
    /\ wpc[w] = "write"
    /\ db' = ProcessIpStore(db, wip[w], wres[w])
    /\ wret' = [wret EXCEPT ![w] = IF wres[w].some THEN "True" ELSE "False"]
    /\ currently_scanning' = currently_scanning \ {wip[w]}
    /\ wpc' = [wpc EXCEPT ![w] = "done"]
    /\ UNCHANGED << active, stop_event, threads, task_queue, unfinished, wip,
                    wres, wfault, ovars, api, nstarts, claimCount, putCount,
                    probeCount, stale, resumed, aux >>

\* Mutant: the address is not discarded when a statement raises.
ProcessIpFaultKeepsScanning(w) ==
    /\ wpc[w] = "write"
    /\ wfault' = [wfault EXCEPT ![w] = TRUE]
    /\ wret' = [wret EXCEPT ![w] = "False"]
    /\ wpc' = [wpc EXCEPT ![w] = "done"]
    /\ UNCHANGED << db, active, stop_event, threads, task_queue, unfinished,
                    currently_scanning, wip, wres, ovars, api, nstarts,
                    claimCount, putCount, probeCount, stale, resumed, aux >>

\* A statement raises (a store fault): get_connection rolls back, closes and
\* re-raises; process_ip logs and returns False; the finally clause runs.
ProcessIpFault(w) ==
    /\ wpc[w] = "write"
    /\ wfault' = [wfault EXCEPT ![w] = TRUE]
    /\ wret' = [wret EXCEPT ![w] = "False"]
    /\ currently_scanning' = currently_scanning \ {wip[w]}
    /\ wpc' = [wpc EXCEPT ![w] = "done"]
    /\ UNCHANGED << db, active, stop_event, threads, task_queue, unfinished,
                    wip, wres, ovars, api, nstarts, claimCount, putCount,
                    probeCount, stale, resumed, aux >>

\* Mutant: a failed process_ip ends the worker before task_done.
WorkerTaskDoneEndsOnFault(w) ==
    /\ wpc[w] = "done"
    /\ unfinished' = IF unfinished > 0 /\ wret[w] # "False"
                     THEN unfinished - 1 ELSE unfinished
    /\ wip' = [wip EXCEPT ![w] = NoIp]
    /\ wres' = [wres EXCEPT ![w] = NoResult]
    /\ wret' = [wret EXCEPT ![w] = "None"]
    /\ wfault' = [wfault EXCEPT ![w] = FALSE]
    /\ wpc' = [wpc EXCEPT ![w] = IF wret[w] = "False" THEN "exited" ELSE "check"]
    /\ UNCHANGED << db, active, stop_event, threads, task_queue,
                    currently_scanning, ovars, api, nstarts, claimCount, putCount,
                    probeCount, stale, resumed, aux >>

\* task_queue.task_done(), the politeness sleep, and back to the loop test.
\* task_done() below zero raises ValueError, which the worker logs.
WorkerTaskDone(w) ==
    /\ wpc[w] = "done"
    /\ unfinished' = IF unfinished > 0 THEN unfinished - 1 ELSE unfinished
    /\ wip' = [wip EXCEPT ![w] = NoIp]
    /\ wres' = [wres EXCEPT ![w] = NoResult]
    /\ wret' = [wret EXCEPT ![w] = "None"]
    /\ wfault' = [wfault EXCEPT ![w] = FALSE]
    /\ wpc' = [wpc EXCEPT ![w] = "check"]
    /\ UNCHANGED << db, active, stop_event, threads, task_queue,
                    currently_scanning, ovars, api, nstarts, claimCount, putCount,
                    probeCount, stale, resumed, aux >>

Worker(w) ==
    \/ WorkerCheck(w)
    \/ WorkerGet(w)
    \/ CrawlIpStart(w)
    \/ CrawlIp(w)
    \/ ProcessIpOk(w)
    \/ ProcessIpFault(w)
    \/ WorkerTaskDone(w)

\* -------------------------------------------------------- start_crawling
\* generate_random_ips returns a duplicate-free collection of addresses of
\* the network: here, any subset of the address universe.
GeneratedSets == SUBSET Addr

\* All orders in which a set of addresses can be listed.
Orderings(B) ==
    {s \in [1..Cardinality(B) -> B] : \A i, j \in DOMAIN s : i # j => s[i] # s[j]}

\* Mutant: the test of self.active is missing and start_crawling goes on.
StartRejectMissing(o) ==
    /\ opc[o] = "check"
    /\ active
    /\ opc' = [opc EXCEPT ![o] = "activate"]
    /\ UNCHANGED << db, svc, wvars, obatch, oret, api, nstarts, claimCount, putCount,
                    probeCount, stale, resumed, aux >>

\* `if self.active: return False`
StartReject(o) ==
    /\ opc[o] = "check"
    /\ active
    /\ oret' = [oret EXCEPT ![o] = "False"]
    /\ opc' = [opc EXCEPT ![o] = "returned"]
    /\ UNCHANGED << db, svc, wvars, obatch, api, nstarts, claimCount, putCount,
                    probeCount, stale, resumed, aux >>

StartAccept(o) ==
    /\ opc[o] = "check"
    /\ ~active
    /\ opc' = [opc EXCEPT ![o] = "activate"]
    /\ UNCHANGED << db, svc, wvars, obatch, oret, api, nstarts, claimCount, putCount,
                    probeCount, stale, resumed, aux >>

\* self.active = True; self.stop_event.clear(); the crawl_state row is
\* replaced and committed.
StartActivate(o) ==
    /\ opc[o] = "activate"
    /\ active' = TRUE
    /\ stop_event' = FALSE
    /\ db' = InitCrawlStateTx(db)
    /\ opc' = [opc EXCEPT ![o] = "populate"]
    /\ resumed' = FALSE
    /\ UNCHANGED << threads, task_queue, unfinished, currently_scanning, wvars,
                    obatch, oret, api, nstarts, claimCount, putCount,
                    probeCount, stale, aux >>

\* self.populate_queue(network, ip_count), then max_threads worker threads
\* are started and appended to self.threads.
StartPopulateSpawn(o) ==
    /\ opc[o] = "populate"
    /\ \E ips \in GeneratedSets : db' = PopulateQueueTx(db, ips)
    /\ wpc' = [w \in Workers |-> IF w \in WorkersOf(o) THEN "check" ELSE wpc[w]]
    /\ threads' = threads \cup WorkersOf(o)
    /\ opc' = [opc EXCEPT ![o] = "loop"]
    /\ UNCHANGED << active, stop_event, task_queue, unfinished,
                    currently_scanning, wip, wres, wret, wfault, obatch, oret,
                    api, nstarts, claimCount, putCount, probeCount, stale, resumed, aux >>

\* `while self.active and not self.stop_event.is_set()` is false: return True.
DispatchExit(o) ==
    /\ opc[o] = "loop"
    /\ ~(active /\ ~stop_event)
    /\ oret' = [oret EXCEPT ![o] = "True"]
    /\ opc' = [opc EXCEPT ![o] = "returned"]
    /\ UNCHANGED << db, svc, wvars, obatch, api, nstarts, claimCount, putCount,
                    probeCount, stale, resumed, aux >>

\* Mutant: the loop test is `while self.active`, without the stop_event.
GetNextIpBatchIgnoresStopEvent(o) ==
    /\ opc[o] = "loop"
    /\ active
    /\ \E B \in BatchChoices(db.crawl_queue, batch_size) :
          /\ db' = GetNextIpBatchTx(db, B)
          /\ obatch' = [obatch EXCEPT ![o] = B]
          /\ claimCount' = [a \in Addr |-> claimCount[a] + (IF a \in B THEN 1 ELSE 0)]
          /\ opc' = [opc EXCEPT ![o] = IF B = {} THEN "sleep" ELSE "put"]
          /\ resumed' = (resumed /\ B = {})
    /\ UNCHANGED << svc, wvars, oret, api, nstarts, putCount, probeCount, stale, aux >>

\* get_next_ip_batch(batch_size): the UPDATE ... RETURNING and its commit.
GetNextIpBatch(o) ==
    /\ opc[o] = "loop"
    /\ active /\ ~stop_event
    /\ \E B \in BatchChoices(db.crawl_queue, batch_size) :
          /\ db' = GetNextIpBatchTx(db, B)
          /\ obatch' = [obatch EXCEPT ![o] = B]
          /\ claimCount' = [a \in Addr |-> claimCount[a] + (IF a \in B THEN 1 ELSE 0)]
          /\ opc' = [opc EXCEPT ![o] = IF B = {} THEN "sleep" ELSE "put"]
          /\ resumed' = (resumed /\ B = {})
    /\ UNCHANGED << svc, wvars, oret, api, nstarts, putCount, probeCount, stale, aux >>

\* get_next_ip_batch; a statement or the commit raises: get_connection rolls
\* back and the except clause returns [].  The loop sleeps as for an empty
\* batch; the position records that the batch is empty because of a fault.
GetNextIpBatchFault(o) ==
    /\ opc[o] = "loop"
    /\ active /\ ~stop_event
    /\ obatch' = [obatch EXCEPT ![o] = {}]
    /\ opc' = [opc EXCEPT ![o] = "sleep_after_fault"]
    /\ UNCHANGED << db, svc, wvars, oret, api, nstarts, claimCount, putCount,
                    probeCount, stale, resumed, aux >>

\* Empty batch: sleep, populate_queue(network, max_ips_per_run // 10), continue.
DispatchReseed(o) ==
    /\ opc[o] \in {"sleep", "sleep_after_fault"}
    /\ \E ips \in GeneratedSets : db' = PopulateQueueTx(db, ips)
    /\ opc' = [opc EXCEPT ![o] = "loop"]
    /\ UNCHANGED << svc, wvars, obatch, oret, api, nstarts, claimCount, putCount,
                    probeCount, stale, resumed, aux >>

\* `for ip in ip_batch: self.task_queue.put(ip)`, then the completed count is
\* read and update_crawl_state('running', total).  ip_batch keeps its value
\* until the next get_next_ip_batch.
DispatchPut(o) ==
    /\ opc[o] = "put"
    /\ \E s \in Orderings(obatch[o]) : task_queue' = task_queue \o s
    /\ unfinished' = unfinished + Cardinality(obatch[o])
    /\ db' = UpdateCrawlStateTx(db, "running", CompletedCount(db), TRUE)
    /\ opc' = [opc EXCEPT ![o] = "join"]
    /\ putCount' = [a \in Addr |-> putCount[a] + (IF a \in obatch[o] THEN 1 ELSE 0)]
    /\ UNCHANGED << active, stop_event, threads, currently_scanning, wvars,
                    obatch, oret, api, nstarts, claimCount, probeCount, stale,
                    resumed, aux >>

\* Mutant: the loop does not wait for the queue to be processed.
DispatchJoinNoWait(o) ==
    /\ opc[o] = "join"
    /\ opc' = [opc EXCEPT ![o] = "loop"]
    /\ UNCHANGED << db, svc, wvars, obatch, oret, api, nstarts, claimCount, putCount,
                    probeCount, stale, resumed, aux >>

\* self.task_queue.join() returns when unfinished_tasks is zero.
DispatchJoin(o) ==
    /\ opc[o] = "join"
    /\ unfinished = 0
    /\ opc' = [opc EXCEPT ![o] = "loop"]
    /\ UNCHANGED << db, svc, wvars, obatch, oret, api, nstarts, claimCount, putCount,
                    probeCount, stale, resumed, aux >>

StartCrawling(o) ==
    \/ StartReject(o)
    \/ StartAccept(o)
    \/ StartActivate(o)
    \/ StartPopulateSpawn(o)
    \/ DispatchExit(o)
    \/ GetNextIpBatch(o)
    \/ GetNextIpBatchFault(o)
    \/ DispatchReseed(o)
    \/ DispatchPut(o)
    \/ DispatchJoin(o)

\* ------------------------------------------------- the API event loop
\* The endpoints are coroutines without await: one runs at a time.
\* POST /crawl/start while active: "already_running", nothing is scheduled.
StartCrawlApiRunning ==
    /\ api = "idle"
    /\ active
    /\ UNCHANGED vars

\* POST /crawl/start otherwise: start_crawling is scheduled as a background
\* task.
StartCrawlApi ==
    /\ api = "idle"
    /\ ~active
    /\ nstarts < MaxStarts
    /\ nstarts' = nstarts + 1
    /\ opc' = [opc EXCEPT ![nstarts + 1] = "check"]
    /\ UNCHANGED << db, svc, wvars, obatch, oret, api, claimCount, putCount,
                    probeCount, stale, resumed, aux >>

RECURSIVE Sentinels(_)
Sentinels(n) == IF n = 0 THEN << >> ELSE << Sentinel >> \o Sentinels(n - 1)

\* Mutant: stop_crawling neither sets stop_event nor puts the sentinels.
StopCrawlingNoSignal ==
    /\ api = "idle"
    /\ active
    /\ active' = FALSE
    /\ api' = "stopping"
    /\ resumed' = FALSE
    /\ UNCHANGED << db, stop_event, threads, task_queue, unfinished,
                    currently_scanning, wvars, ovars, nstarts, claimCount, putCount,
                    probeCount, stale, aux >>

\* POST /crawl/stop -> stop_crawling: the flags and one sentinel per worker.
StopCrawling ==
    /\ api = "idle"
    /\ active
    /\ active' = FALSE
    /\ stop_event' = TRUE
    /\ task_queue' = task_queue \o Sentinels(max_threads)
    /\ unfinished' = unfinished + max_threads
    /\ api' = "stopping"
    /\ resumed' = FALSE
    /\ UNCHANGED << db, threads, currently_scanning, wvars, ovars, nstarts,
                    claimCount, putCount, probeCount, stale, aux >>

\* Each thread is joined with a timeout, self.threads.clear(), the completed
\* count is read and update_crawl_state('stopped', total).
StopFinish ==
    /\ api = "stopping"
    /\ threads' = {}
    /\ db' = UpdateCrawlStateTx(db, "stopped", CompletedCount(db), TRUE)
    /\ api' = "idle"
    /\ stale' = [a \in Addr |->
                    IF stale[a] = 0 /\ a \in WithStatus(db.crawl_queue, "in-progress")
                    THEN nstarts ELSE stale[a]]
    /\ UNCHANGED << active, stop_event, task_queue, unfinished,
                    currently_scanning, wvars, ovars, nstarts, claimCount, putCount,
                    probeCount, resumed, aux >>

\* POST /crawl/pause
PauseCrawl ==
    /\ api = "idle"
    /\ active
    /\ stop_event' = TRUE
    /\ db' = UpdateCrawlStateTx(db, "paused", 0, FALSE)
    /\ resumed' = FALSE
    /\ UNCHANGED << active, threads, task_queue, unfinished, currently_scanning,
                    wvars, ovars, api, nstarts, claimCount, putCount,
                    probeCount, stale, aux >>

\* POST /crawl/resume
ResumeCrawl ==
    /\ api = "idle"
    /\ active
    /\ stop_event' = FALSE
    /\ db' = UpdateCrawlStateTx(db, "running", 0, FALSE)
    /\ resumed' = stop_event
    /\ UNCHANGED << active, threads, task_queue, unfinished, currently_scanning,
                    wvars, ovars, api, nstarts, claimCount, putCount,
                    probeCount, stale, aux >>

\* POST /crawl/queue/populate
PopulateQueueApi ==
    /\ api = "idle"
    /\ \E ips \in GeneratedSets : db' = PopulateQueueTx(db, ips)
    /\ UNCHANGED << svc, wvars, ovars, api, nstarts, claimCount, putCount,
                    probeCount, stale, resumed, aux >>

Api ==
    \/ StartCrawlApiRunning
    \/ StartCrawlApi
    \/ StopCrawling
    \/ StopFinish
    \/ PauseCrawl
    \/ ResumeCrawl
    \/ PopulateQueueApi

Next ==
    \/ \E w \in Workers : Worker(w)
    \/ \E o \in Orchs : StartCrawling(o)
    \/ Api

Spec == Init /\ [][Next]_vars

\* Threads are scheduled fairly: a worker, a start_crawling thread or the
\* stop_crawling call that can take a step eventually takes one.  Requests
\* to the API are not obliged to arrive.
FairSpec ==
    /\ Spec
    /\ \A w \in Workers : WF_vars(Worker(w))
    /\ \A o \in Orchs : WF_vars(StartCrawling(o))
    /\ WF_vars(StopFinish)

\* ------------------------------------------------------------- telemetry
\* self.recent_events.append({'type': t, 'ip': ip, ...}) by a worker thread.
RecentEventsAppend(t, ip) ==
    /\ Len(pushed) < MaxPushed
    /\ recent_events' = DequeAppend(recent_events, [type |-> t, ip |-> ip])
    /\ pushed' = Append(pushed, [type |-> t, ip |-> ip])
    /\ UNCHANGED << cvars, gen, srch >>

\* crawl_ip: the probe of ip starts.
EventScanStart == \E ip \in Addr : RecentEventsAppend("scan_start", ip)
\* crawl_ip: a response came back.
EventDetected == \E ip \in Addr : RecentEventsAppend("detected", ip)
\* crawl_ip: requests.RequestException.
EventFailed == \E ip \in Addr : RecentEventsAppend("failed", ip)
\* crawl_ip: any other exception.
EventError == \E ip \in Addr : RecentEventsAppend("error", ip)
\* process_ip: the result was written.
EventStored == \E ip \in Addr : RecentEventsAppend("stored", ip)

\* Python's seq[start:] : a negative start counts from the end and is clipped
\* at the front; a start of 0 or more counts from the front.
SliceFrom(seq, start) ==
    LET n == Len(seq)
        from == IF start < 0 THEN (IF n + start < 0 THEN 0 ELSE n + start)
                ELSE (IF start > n THEN n ELSE start)
    IN SubSeq(seq, from + 1, n)

\* list(self.recent_events)[-limit:]
RecentEventsSlice(events, limit) == SliceFrom(events, 0 - limit)

\* GET /crawl/live/events?limit=n -> get_recent_events(limit), once; the
\* call record keeps the deque as it was read.
GetRecentEvents ==
    /\ srch.pc = "idle"
    /\ \E limit \in 0..MaxEventsLimit :
          srch' = [pc |-> "returned", fn |-> "get_recent_events", limit |-> limit,
                   events |-> recent_events,
                   ret |-> RecentEventsSlice(recent_events, limit)]
    /\ UNCHANGED << cvars, recent_events, pushed, gen >>

TelemetryNext ==
    \/ EventScanStart
    \/ EventDetected
    \/ EventFailed
    \/ EventError
    \/ EventStored
    \/ GetRecentEvents

\* The workers' appends to recent_events, in every order and for every
\* address.
TelemetrySpec == Init /\ [][TelemetryNext]_vars

\* ------------------------------------- the events of crawl_ip, process_ip
\* The worker threads' steps through crawl_ip and process_ip with the events
\* they append.  Everything but the workers, currently_scanning and the event
\* buffer stays as constructed.
eventRest == << db, active, stop_event, threads, task_queue, unfinished,
                wret, wfault, ovars, api, nstarts, claimCount, putCount, stale,
                resumed, gen, srch >>

\* self.recent_events.append(...) of an event of type t for address ip.
AppendEvent(t, ip) ==
    /\ recent_events' = DequeAppend(recent_events, [type |-> t, ip |-> ip])
    /\ pushed' = Append(pushed, [type |-> t, ip |-> ip])

\* worker: an address comes off task_queue; each address is handed out once.
WorkerPicked(w) ==
    /\ wpc[w] \in {"unstarted", "check"}
    /\ \E ip \in {a \in Addr : probeCount[a] = 0 /\ \A x \in Workers : wip[x] # a} :
          wip' = [wip EXCEPT ![w] = ip]
    /\ wpc' = [wpc EXCEPT ![w] = "crawl"]
    /\ UNCHANGED << eventRest, currently_scanning, wres, probeCount,
                    recent_events, pushed >>

\* crawl_ip: under the lock, currently_scanning.add and the scan_start event.
CrawlIpScanStart(w) ==
    /\ wpc[w] = "crawl"
    /\ currently_scanning' = currently_scanning \cup {wip[w]}
    /\ AppendEvent("scan_start", wip[w])
    /\ probeCount' = [probeCount EXCEPT ![wip[w]] = @ + 1]
    /\ wpc' = [wpc EXCEPT ![w] = "probe"]
    /\ UNCHANGED << eventRest, wip, wres >>

\* crawl_ip: the response was parsed; the detected event, then the result.
CrawlIpDetected(w) ==
    /\ wpc[w] = "probe"
    /\ AppendEvent("detected", wip[w])
    /\ \E r \in ProbeResults : wres' = [wres EXCEPT ![w] = r]
    /\ wpc' = [wpc EXCEPT ![w] = "write"]
    /\ UNCHANGED << eventRest, currently_scanning, wip, probeCount >>

\* crawl_ip: requests.RequestException; the failed event, then None.
CrawlIpFailed(w) ==
    /\ wpc[w] = "probe"
    /\ AppendEvent("failed", wip[w])
    /\ wres' = [wres EXCEPT ![w] = NoResult]
    /\ wpc' = [wpc EXCEPT ![w] = "write"]
    /\ UNCHANGED << eventRest, currently_scanning, wip, probeCount >>

\* crawl_ip: any other exception; the error event, then None.
CrawlIpError(w) ==
    /\ wpc[w] = "probe"
    /\ AppendEvent("error", wip[w])
    /\ wres' = [wres EXCEPT ![w] = NoResult]
    /\ wpc' = [wpc EXCEPT ![w] = "write"]
    /\ UNCHANGED << eventRest, currently_scanning, wip, probeCount >>

\* Mutant: the stored event is appended in the else branch too.
ProcessIpStoredAlways(w) ==
    /\ wpc[w] = "write"
    /\ AppendEvent("stored", wip[w])
    /\ currently_scanning' = currently_scanning \ {wip[w]}
    /\ wip' = [wip EXCEPT ![w] = NoIp]
    /\ wres' = [wres EXCEPT ![w] = NoResult]
    /\ wpc' = [wpc EXCEPT ![w] = "check"]
    /\ UNCHANGED << eventRest, probeCount >>

\* process_ip with a result and no statement raising: the stored event is
\* appended before `return True`; the finally clause discards the address.
ProcessIpStored(w) ==
    /\ wpc[w] = "write"
    /\ wres[w].some
    /\ AppendEvent("stored", wip[w])
    /\ currently_scanning' = currently_scanning \ {wip[w]}
    /\ wip' = [wip EXCEPT ![w] = NoIp]
    /\ wres' = [wres EXCEPT ![w] = NoResult]
    /\ wpc' = [wpc EXCEPT ![w] = "check"]
    /\ UNCHANGED << eventRest, probeCount >>

\* process_ip in its else branch (the result is None), or with a statement
\* raising in either branch: no event is appended.
ProcessIpNoEvent(w) ==
    /\ wpc[w] = "write"
    /\ currently_scanning' = currently_scanning \ {wip[w]}
    /\ wip' = [wip EXCEPT ![w] = NoIp]
    /\ wres' = [wres EXCEPT ![w] = NoResult]
    /\ wpc' = [wpc EXCEPT ![w] = "check"]
    /\ UNCHANGED << eventRest, probeCount, recent_events, pushed >>

EventsNext ==
    \E w \in Workers :
        \/ WorkerPicked(w)
        \/ CrawlIpScanStart(w)
        \/ CrawlIpDetected(w)
        \/ CrawlIpFailed(w)
        \/ CrawlIpError(w)
        \/ ProcessIpStored(w)
        \/ ProcessIpNoEvent(w)

\* The worker threads processing the addresses, with the events they append.
EventsSpec == Init /\ [][EventsNext]_vars

\* -------------------------------------------------- generate_random_ips
\* generate_random_ips(network, count) is called.
GenCall ==
    /\ gen.pc \in {"idle", "returned"}
    /\ \E net \in Networks, count \in 0..MaxCount :
          gen' = [pc |-> "loop", net |-> net, count |-> count,
                  results |-> {}, attempts |-> 0, ret |-> << >>, raised |-> FALSE]
    /\ UNCHANGED << cvars, recent_events, pushed, srch >>

\* generate_random_ips is called with a network that ipaddress.ip_network or
\* IPv4Address refuses: the exception is logged and [] is returned.
GenCallRaises ==
    /\ gen.pc \in {"idle", "returned"}
    /\ \E count \in 0..MaxCount :
          gen' = [pc |-> "returned", count |-> count, results |-> {},
                  attempts |-> 0, ret |-> << >>, raised |-> TRUE]
    /\ UNCHANGED << cvars, recent_events, pushed, srch >>

\* Mutant: the loop tests only len(results) < count.
GenAttemptNoCap ==
    /\ gen.pc = "loop"
    /\ Cardinality(gen.results) < gen.count
    /\ \E candidate \in Candidates(gen.net) :
          gen' = [gen EXCEPT
                    !.attempts = @ + 1,
                    !.results = IF IsGlobal(candidate) /\ candidate[4] \notin {0, 255}
                                THEN @ \cup {candidate} ELSE @]
    /\ UNCHANGED << cvars, recent_events, pushed, srch >>

\* One turn of `while len(results) < count and attempts < max_attempts`: a
\* candidate is drawn, and kept when it is global and its last octet is
\* neither 0 nor 255.
GenAttempt ==
    /\ gen.pc = "loop"
    /\ Cardinality(gen.results) < gen.count
    /\ gen.attempts < gen.count * AttemptsPerAddress
    /\ \E candidate \in Candidates(gen.net) :
          gen' = [gen EXCEPT
                    !.attempts = @ + 1,
                    !.results = IF IsGlobal(candidate) /\ candidate[4] \notin {0, 255}
                                THEN @ \cup {candidate} ELSE @]
    /\ UNCHANGED << cvars, recent_events, pushed, srch >>

\* list(results): the members of the set, once each, in some order.
ListOf(S) == {l \in [1..Cardinality(S) -> S] : Range(l) = S}

\* The loop ends: `return list(results)`.
GenReturn ==
    /\ gen.pc = "loop"
    /\ ~(Cardinality(gen.results) < gen.count
          /\ gen.attempts < gen.count * AttemptsPerAddress)
    /\ \E l \in ListOf(gen.results) :
          gen' = [gen EXCEPT !.pc = "returned", !.ret = l]
    /\ UNCHANGED << cvars, recent_events, pushed, srch >>

GenNext == GenCall \/ GenCallRaises \/ GenAttempt \/ GenReturn

GenSpec == Init /\ [][GenNext]_vars

\* ---------------------------------------------------------- SearchService
\* The call that has just returned: its arguments, the dict returned, whether
\* the join query was executed, and the statement that raised ("none", "store":
\* the connection or a query of the call, "log": the INSERT of _log_search).
SearchReturned(fn, query, limit, offset, ret, joined, fault) ==
    [pc |-> "returned", fn |-> fn, query |-> query, limit |-> limit,
     offset |-> offset, ret |-> ret, joined |-> joined, fault |-> fault]

\* search(query, limit, offset) when no term survives the filter: the empty
\* dict is returned before any connection is opened.
SearchNoTerms ==
    \E query \in Queries, limit \in 1..MaxLimit, offset \in 0..MaxOffset :
        /\ srch.pc = "idle"
        /\ QueryTerms(query) = << >>
        /\ srch' = SearchReturned("search", query, limit, offset,
                        [results |-> << >>, total_count |-> 0, error |-> FALSE,
                         raised |-> FALSE], FALSE, "none")
        /\ UNCHANGED << cvars, recent_events, pushed, gen >>

\* search with terms, no statement raising: the ranked page of results, the
\* total count, and the search_history row.
SearchOk ==
    \E query \in Queries, limit \in 1..MaxLimit, offset \in 0..MaxOffset :
        /\ srch.pc = "idle"
        /\ QueryTerms(query) # << >>
        /\ \E ranking \in SearchRankings(db, QueryTerms(query)) :
              srch' = SearchReturned("search", query, limit, offset,
                        [results |-> LimitOffset(ranking, limit, offset),
                         total_count |-> SearchTotalCount(db, QueryTerms(query)),
                         error |-> FALSE, raised |-> FALSE], TRUE, "none")
        /\ db' = LogSearch(db, query, SearchTotalCount(db, QueryTerms(query)))
        /\ UNCHANGED << active, stop_event, threads, task_queue, unfinished,
                        currently_scanning, wvars, ovars, api, nstarts,
                        claimCount, putCount,
                        probeCount, stale, resumed, recent_events, pushed, gen >>

\* search with terms; the INSERT of _log_search (or its commit) raises:
\* _log_search logs the exception and search returns its results.
SearchLogFault ==
    \E query \in Queries, limit \in 1..MaxLimit, offset \in 0..MaxOffset :
        /\ srch.pc = "idle"
        /\ QueryTerms(query) # << >>
        /\ \E ranking \in SearchRankings(db, QueryTerms(query)) :
              srch' = SearchReturned("search", query, limit, offset,
                        [results |-> LimitOffset(ranking, limit, offset),
                         total_count |-> SearchTotalCount(db, QueryTerms(query)),
                         error |-> FALSE, raised |-> FALSE], TRUE, "log")
        /\ UNCHANGED << cvars, recent_events, pushed, gen >>

\* search with terms; the connection, the search query or the count query
\* raises: the `except Exception` clause returns the error dict.
SearchFault ==
    \E query \in Queries, limit \in 1..MaxLimit, offset \in 0..MaxOffset,
       joined \in BOOLEAN :
        /\ srch.pc = "idle"
        /\ QueryTerms(query) # << >>
        /\ srch' = SearchReturned("search", query, limit, offset, SearchError, joined, "store")
        /\ UNCHANGED << cvars, recent_events, pushed, gen >>

\* search_by_domain, no statement raising: the active hosts whose domain
\* matches (ORDER BY last_crawled: any order here), each with score 1.0.
SearchByDomainOk ==
    \E sub \in DomainQueries, limit \in 1..MaxLimit, offset \in 0..MaxOffset :
        LET M == {[ip_address |-> h.ip, score |-> 1, page_count |-> 0]
                     : h \in {x \in db.hosts : DomainLike(x.domain, sub) /\ x.is_active}}
        IN /\ srch.pc = "idle"
           /\ \E s \in Orderings(M) :
                 srch' = SearchReturned("search_by_domain", << sub >>, limit, offset,
                           [results |-> LimitOffset(s, limit, offset),
                            total_count |-> Cardinality(M),
                            error |-> FALSE, raised |-> FALSE], FALSE, "none")
           /\ UNCHANGED << cvars, recent_events, pushed, gen >>

\* search_by_domain; a statement raises.
SearchByDomainFault ==
    \E sub \in DomainQueries, limit \in 1..MaxLimit, offset \in 0..MaxOffset :
        /\ srch.pc = "idle"
        /\ srch' = SearchReturned("search_by_domain", << sub >>, limit, offset,
                        SearchError, FALSE, "store")
        /\ UNCHANGED << cvars, recent_events, pushed, gen >>

SearchNext ==
    \/ SearchNoTerms
    \/ SearchOk
    \/ SearchLogFault
    \/ SearchFault
    \/ SearchByDomainOk
    \/ SearchByDomainFault

\* One call of the search service on every store of SearchStores.
SearchInit == db \in SearchStores /\ InitService

SearchSpec == SearchInit /\ [][SearchNext]_vars

\* ------------------------------------------- SearchService.get_host_details
\* The legacy WebCrawler.process_ip (src/crawler.py) runs the statements of the
\* Writer on the same store file and reaches its conn.commit().
LegacyCommitReached == TRUE
LegacyProcessIpStore(d, ip, r) ==
    GetConnectionExit(d, WriterTx(d, ip, r), LegacyCommitReached)

\* SELECT ... FROM hosts WHERE ip_address = ?
HostRows(d, ip) == {h \in d.hosts : h.ip = ip}

\* Mutant: the pages query has no WHERE clause.
HostPagesNoWhere(d, ip) == d.pages

\* SELECT ... FROM pages
\* WHERE host_id = (SELECT id FROM hosts WHERE ip_address = ?)
HostPages(d, ip) ==
    {pg \in d.pages : \E h \in HostRows(d, ip) : pg.host_id = h.id}

\* ORDER BY last_crawled DESC: last_crawled is the CURRENT_TIMESTAMP of the
\* INSERT, so a page inserted later (a larger id) comes first.
RECURSIVE PagesByLastCrawled(_)
PagesByLastCrawled(pgs) ==
    IF pgs = {} THEN << >>
    ELSE LET last == CHOOSE x \in pgs : \A y \in pgs : y.id <= x.id
         IN << last >> \o PagesByLastCrawled(pgs \ {last})

\* FROM keywords k JOIN page_keywords pk ON k.id = pk.keyword_id
\*   JOIN pages p ON pk.page_id = p.id JOIN hosts h ON p.host_id = h.id
\* WHERE h.ip_address = ?
HostKeywordJoin(d, ip) ==
    {row \in d.keywords \X d.page_keywords \X d.pages \X d.hosts :
        /\ row[1].id = row[2].keyword_id
        /\ row[2].page_id = row[3].id
        /\ row[3].host_id = row[4].id
        /\ row[4].ip = ip}

\* SUM(pk.frequency) over a set of joined rows
RECURSIVE SumFrequency(_)
SumFrequency(rows) ==
    IF rows = {} THEN 0
    ELSE LET row == CHOOSE x \in rows : TRUE
         IN row[2].frequency + SumFrequency(rows \ {row})

\* GROUP BY k.id
HostKeywordGroups(d, ip) ==
    LET J == HostKeywordJoin(d, ip)
    IN {[keyword |-> k.keyword,
         frequency |-> SumFrequency({row \in J : row[1].id = k.id})]
          : k \in {row[1] : row \in J}}

\* LIMIT 10
TopKeywordsLimit == 10

\* ORDER BY total_frequency DESC LIMIT 10: the lists that can come back.
TopKeywords(d, ip) ==
    LET G == HostKeywordGroups(d, ip)
    IN {LimitOffset(s, TopKeywordsLimit, 0) :
          s \in {t \in Orderings(G) :
                   \A i, j \in DOMAIN t : i < j => t[i].frequency >= t[j].frequency}}

\* get_host_details returned None.
NoDetails == [some |-> FALSE]

\* The call of get_host_details that has just returned: its argument, what it
\* returned, and whether a statement raised.
DetailsReturned(ip, ret, fault) ==
    [pc |-> "returned", fn |-> "get_host_details", ip |-> ip, ret |-> ret,
     fault |-> fault]

\* The rest of the legacy crawler's variables are those of the service left in
\* their initial state; its task_queue is task_queue.
legacyRest == << active, stop_event, threads, unfinished, currently_scanning,
                 wvars, ovars, api, nstarts, claimCount, putCount,
                 probeCount, stale, resumed, aux >>

\* Legacy start_crawling up to its loop: the crawl_state row, then
\* populate_queue.
LegacyStartCrawling ==
    /\ srch.pc = "idle"
    /\ db.crawl_state = {}
    /\ \E ips \in GeneratedSets : db' = PopulateQueueTx(InitCrawlStateTx(db), ips)
    /\ UNCHANGED << task_queue, legacyRest >>

\* One turn of the legacy dispatch loop, entered when task_queue.join() has
\* returned: an empty batch reseeds the queue; otherwise the batch is put on
\* task_queue and the completed count is written.
LegacyDispatch ==
    /\ srch.pc = "idle"
    /\ db.crawl_state # {}
    /\ task_queue = << >>
    /\ \E B \in BatchChoices(db.crawl_queue, batch_size) :
          IF B = {}
          THEN /\ \E ips \in GeneratedSets : db' = PopulateQueueTx(db, ips)
               /\ UNCHANGED task_queue
          ELSE /\ db' = UpdateCrawlStateTx(GetNextIpBatchTx(db, B), "running",
                                           CompletedCount(db), TRUE)
               /\ \E s \in Orderings(B) : task_queue' = s
    /\ UNCHANGED legacyRest

\* A legacy worker takes an address off task_queue and runs process_ip on it,
\* committed.
LegacyProcessIp ==
    \E r \in ProbeResults \cup {NoResult} :
        /\ srch.pc = "idle"
        /\ task_queue # << >>
        /\ db' = LegacyProcessIpStore(db, Head(task_queue), r)
        /\ task_queue' = Tail(task_queue)
        /\ UNCHANGED legacyRest

\* get_host_details(ip_address), no statement raising: None when hosts has no
\* row of the address, else the host row, its pages and its top keywords.
GetHostDetails ==
    \E ip \in Addr :
        /\ srch.pc = "idle"
        /\ IF HostRows(db, ip) = {}
           THEN srch' = DetailsReturned(ip, NoDetails, FALSE)
           ELSE \E kws \in TopKeywords(db, ip) :
                   srch' = DetailsReturned(ip,
                             [some |-> TRUE,
                              host |-> CHOOSE h \in HostRows(db, ip) : TRUE,
                              pages |-> PagesByLastCrawled(HostPages(db, ip)),
                              top_keywords |-> kws], FALSE)
        /\ UNCHANGED << cvars, recent_events, pushed, gen >>

\* get_host_details; a statement raises: the except clause returns None.
GetHostDetailsFault ==
    \E ip \in Addr :
        /\ srch.pc = "idle"
        /\ srch' = DetailsReturned(ip, NoDetails, TRUE)
        /\ UNCHANGED << cvars, recent_events, pushed, gen >>

LegacyNext ==
    \/ LegacyStartCrawling
    \/ LegacyDispatch
    \/ LegacyProcessIp
    \/ GetHostDetails
    \/ GetHostDetailsFault

\* A crawl of the legacy crawler, which commits what its Writer stores, then
\* one call of get_host_details.
LegacySpec == Init /\ [][LegacyNext]_vars

\* ================================================================= claims
\* process_ip of worker w ends in this step.
ProcessIpEnds(w) == wpc[w] = "write" /\ wpc'[w] = "done"

\* total_occurrences of keyword k in store d (0 when there is no row).
TotalOccurrences(d, k) ==
    IF \E r \in d.keywords : r.keyword = k
    THEN (CHOOSE r \in d.keywords : r.keyword = k).total_occurrences
    ELSE 0

KeywordUniverse == {"k1", "k2"}

\* C1: no address is ever returned by two calls of get_next_ip_batch, however
\* the calls of concurrent start_crawling threads interleave.
C1_DisjointBatches == \A a \in Addr : claimCount[a] <= 1

\* Two start_crawling threads hold a non-empty batch at the same time, each
\* about to put it on task_queue.
C1_Witness ==
    \E o1, o2 \in Orchs :
        /\ o1 # o2 /\ obatch[o1] # {} /\ obatch[o2] # {}
        /\ opc[o1] = "put" /\ opc[o2] = "put"

\* C2: when process_ip ends for a probe that returned a result, the store holds
\* the host row of the address with is_active true, exactly one new page row,
\* which references that host row, and the queue entry is completed.
C2_RecordStoresResult ==
    [][\A w \in Workers :
         (ProcessIpEnds(w) /\ wret'[w] = "True") =>
            /\ \E h \in db'.hosts :
                  /\ h.ip = wip[w] /\ h.is_active
                  /\ \E p \in db'.pages \ db.pages :
                        p.host_id = h.id /\ db'.pages \ db.pages = {p}
            /\ db'.crawl_queue[wip[w]] = << "completed" >>]_vars

\* C3: when process_ip ends for a probe that returned nothing (and no store
\* fault), the store holds the host row of the address with is_active false
\* and no metadata, and the queue entry is failed.
C3_RecordNoneMarksFailed ==
    [][\A w \in Workers :
         (ProcessIpEnds(w) /\ ~wres[w].some /\ ~wfault'[w]) =>
            /\ \E h \in db'.hosts :
                  h.ip = wip[w] /\ ~h.is_active /\ h.status_code = NULL
            /\ db'.crawl_queue[wip[w]] = << "failed" >>]_vars

\* C4: a successful process_ip raises total_occurrences of each extracted
\* keyword by exactly 1 and adds exactly one page_keywords row per extracted
\* keyword, with its frequency; no step lowers a total_occurrences.
C4_KeywordTotals ==
    [][/\ \A w \in Workers :
            (ProcessIpEnds(w) /\ wret'[w] = "True") =>
               \A i \in 1..Len(wres[w].keywords) :
                  LET k == wres[w].keywords[i][1]
                      f == wres[w].keywords[i][2]
                      kid == KeywordId(db'.keywords, k)
                      new == db'.page_keywords \ db.page_keywords
                  IN /\ \E r \in db'.keywords : r.keyword = k
                     /\ TotalOccurrences(db', k) = TotalOccurrences(db, k) + 1
                     /\ Cardinality({r \in new : r.keyword_id = kid}) = 1
                     /\ \A r \in new : r.keyword_id = kid => r.frequency = f
       /\ \A k \in KeywordUniverse :
            TotalOccurrences(db', k) >= TotalOccurrences(db, k)]_vars

\* C5: process_ip is all-or-nothing: when a statement raised, the store is as
\* before the call; when none did, the store holds every mutation of the
\* Writer's transaction.
C5_AllOrNothing ==
    [][\A w \in Workers :
         ProcessIpEnds(w) =>
            IF wfault'[w] THEN db' = db
            ELSE db' = WriterTx(db, wip[w], wres[w])]_vars

\* C6: an address whose Writer transaction met a store fault does not stay
\* in-progress for ever: its queue entry becomes pending or failed (runs in
\* which the crawler is then stopped or paused are set aside).
C6_FaultedEntryLeavesInProgress ==
    \A a \in Addr :
        (\E w \in Workers : wpc[w] = "done" /\ wfault[w] /\ wip[w] = a)
            ~> \/ db.crawl_queue[a] \in {<< "pending" >>, << "failed" >>}
               \/ ~active \/ stop_event

\* C7: an entry that a stop_crawling left in-progress is returned again by
\* get_next_ip_batch once a start_crawling scheduled after that stop runs its
\* dispatch loop (runs in which the later run is itself stopped or paused are
\* set aside).
C7_StaleEntryReclaimed ==
    \A a \in Addr :
        (/\ stale[a] > 0 /\ active /\ ~stop_event
         /\ \E o \in Orchs : o > stale[a] /\ opc[o] = "loop")
            ~> (claimCount[a] >= 2 \/ ~active \/ stop_event)

\* C8: populate_queue's inserts are idempotent on every reachable queue and
\* for every generated set: no address gets a second row, the row of a known
\* address keeps its status, a new address gets one pending row, nothing else
\* changes, and a second enqueue of the same set changes nothing.
C8_EnqueueIdempotent ==
    \A S \in GeneratedSets :
        LET q  == db.crawl_queue
            d1 == PopulateQueueTx(db, S)
            q1 == d1.crawl_queue
        IN /\ PopulateQueueTx(d1, S) = d1
           /\ d1 = [db EXCEPT !.crawl_queue = q1]
           /\ \A a \in Addr :
                 /\ Len(q1[a]) <= 1
                 /\ q[a] # << >> => q1[a] = q[a]
                 /\ (q[a] = << >> /\ a \in S) => q1[a] = << "pending" >>
                 /\ a \notin S => q1[a] = q[a]

\* A queue with an entry that is no longer pending and an address not yet
\* queued, enqueued together.
C8_Witness ==
    \E a, b \in Addr :
        /\ db.crawl_queue[a] = << "in-progress" >>
        /\ db.crawl_queue[b] = << >>
        /\ PopulateQueueTx(db, {a, b}).crawl_queue[a] = << "in-progress" >>
        /\ PopulateQueueTx(db, {a, b}).crawl_queue[b] = << "pending" >>

C10_StartWhileActiveNoOp ==
    [][\A o \in Orchs :
         /\ (opc[o] = "check" /\ active /\ opc'[o] # "check") =>
               /\ opc'[o] = "returned" /\ oret'[o] = "False"
               /\ UNCHANGED << db, active, stop_event, threads, task_queue,
                               unfinished, wpc >>
         /\ (opc[o] = "returned" /\ oret[o] = "False") =>
               (opc'[o] = "returned" /\ oret'[o] = "False")]_vars

\* A start_crawling call has returned False while a run is active.
C10_Witness ==
    \E o \in Orchs : opc[o] = "returned" /\ oret[o] = "False" /\ active

\* C11: when stop_crawling returns, the crawler is inactive, self.threads is
\* empty and the persisted crawl_state status is 'stopped'; and the persisted
\* status 'stopped' is changed only by a start_crawling call that activates
\* the crawler, also when a dispatch loop runs concurrently with the stop.
C11_StopLeavesStopped ==
    [][/\ (api = "stopping" /\ api' = "idle") =>
              (~active' /\ threads' = {} /\ CrawlStatus(db') = "stopped")
       /\ (CrawlStatus(db) = "stopped" /\ CrawlStatus(db') # "stopped") =>
              \E o \in Orchs : opc[o] = "activate" /\ opc'[o] = "populate"]_vars

\* C12: pause does not terminate workers: while the crawler is paused (active,
\* with the flag set by POST /crawl/pause), a worker at its loop test does not
\* end, so the live workers are the same across a pause/resume cycle.
C12_PauseKeepsWorkers ==
    [][\A w \in Workers :
         (active /\ stop_event /\ wpc[w] = "check") => wpc'[w] # "exited"]_vars

\* C13: after a pause that a resume ended, with pending entries in the queue,
\* a dispatch loop eventually claims a further batch (runs in which the
\* crawler is then paused again or stopped are set aside).
C13_ResumeContinuesDispatch ==
    (resumed /\ WithStatus(db.crawl_queue, "pending") # {}) ~> ~resumed

\* The last n items of s.
LastN(s, n) == IF Len(s) > n THEN SubSeq(s, Len(s) - n + 1, Len(s)) ELSE s

\* C14: recent_events never holds more than maxlen events, and it holds the
\* last maxlen events appended (all of them while fewer were appended), in
\* the order of their appends: the oldest event is the one evicted.
C14_RingBufferFifo ==
    /\ Len(recent_events) <= maxlen
    /\ recent_events = LastN(pushed, maxlen)

\* More events than the capacity were appended, by two at least, and the oldest
\* event kept differs from the first event appended.
C14_Witness ==
    /\ Len(pushed) >= maxlen + 2
    /\ Len(recent_events) = maxlen
    /\ recent_events[1] = pushed[Len(pushed) - maxlen + 1]
    /\ recent_events[1] # pushed[1]

\* IPv4Address.is_loopback, is_link_local, is_multicast, is_reserved.
IsLoopback(a) == InNetwork(a, Network(127, 0, 0, 0, 8))
IsLinkLocal(a) == InNetwork(a, Network(169, 254, 0, 0, 16))
IsMulticast(a) == InNetwork(a, Network(224, 0, 0, 0, 4))
IsReserved(a) == InNetwork(a, Network(240, 0, 0, 0, 4))

\* C15: every address generate_random_ips returns lies inside the network
\* asked for, is not private, loopback, link-local, multicast or reserved, and
\* its last octet is neither 0 nor 255.
C15_GeneratedAreGlobal ==
    gen.pc = "returned" =>
        \A a \in gen.results :
            /\ InNetwork(a, gen.net)
            /\ ~IsPrivate(a) /\ ~IsLoopback(a) /\ ~IsLinkLocal(a)
            /\ ~IsMulticast(a) /\ ~IsReserved(a)
            /\ a[4] \notin {0, 255}

\* A call of search has returned.
SearchEnded == srch.pc = "returned" /\ srch.fn = "search"

\* Words of the query that extract_keywords drops as stop words.
StopWords == {"is", "the"}

\* C16 (as stated): search with an empty query, or with a query made only of
\* stop words, returns no result and total_count 0 and does not run the join
\* query.
C16_StopwordQueryEmpty ==
    (SearchEnded /\ \A k \in 1..Len(srch.query) : Lower[srch.query[k]] \in StopWords)
        => /\ srch.ret.results = << >>
           /\ srch.ret.total_count = 0
           /\ ~srch.joined

\* C16 (amended): search with an empty query, or with a query whose words are
\* all shorter than min_keyword_length, returns no result, total_count 0 and
\* no error, and does not run the join query.
C16_ShortQueryEmpty ==
    (SearchEnded /\ \A k \in 1..Len(srch.query) : WordLen[srch.query[k]] < 3)
        => /\ srch.ret.results = << >>
           /\ srch.ret.total_count = 0
           /\ ~srch.ret.error
           /\ ~srch.joined

\* A search for two short words has returned, on a store in which a host
\* matches the keyword 'server'.
C16_Witness ==
    /\ SearchEnded
    /\ srch.query = << "is", "is" >>
    /\ ~srch.joined
    /\ SearchTotalCount(db, << "server" >>) > 0

\* C17 (as stated): every call of search appends exactly one search_history
\* row, holding the query and the total count.
C17_EveryCallLogged ==
    [][(srch.pc = "idle" /\ srch'.pc = "returned" /\ srch'.fn = "search") =>
          db'.search_history =
              Append(db.search_history,
                     [query |-> srch'.query, result_count |-> srch'.ret.total_count])]_vars

\* C17 (amended): a call of search whose query has a word of at least
\* min_keyword_length characters and in which no statement raises appends
\* exactly one search_history row, holding the query and the total count;
\* every other call of search leaves search_history as it was.
C17_TermCallLogged ==
    [][(srch.pc = "idle" /\ srch'.pc = "returned" /\ srch'.fn = "search") =>
          IF /\ \E k \in 1..Len(srch'.query) : WordLen[srch'.query[k]] >= 3
             /\ srch'.fault = "none"
          THEN db'.search_history =
                  Append(db.search_history,
                         [query |-> srch'.query,
                          result_count |-> srch'.ret.total_count])
          ELSE db'.search_history = db.search_history]_vars

\* A search that found two hosts has returned and its row follows the row of
\* an earlier search.
C17_Witness ==
    /\ SearchEnded
    /\ srch.fault = "none"
    /\ srch.ret.total_count = 2
    /\ Len(db.search_history) = 2
    /\ db.search_history[2] = [query |-> srch.query, result_count |-> 2]

\* The page_keywords rows of page pg for keyword t.
PageTermRows(d, pg, t) ==
    {pk \in d.page_keywords :
        /\ pk.page_id = pg
        /\ \E k \in d.keywords : k.id = pk.keyword_id /\ k.keyword = t}

\* The frequency of keyword t on page pg (0 when the page has no row for it),
\* times the keyword's total_occurrences.
TermScore(d, pg, t) ==
    IF PageTermRows(d, pg, t) = {} THEN 0
    ELSE (CHOOSE pk \in PageTermRows(d, pg, t) : TRUE).frequency
            * TotalOccurrences(d, t)

RECURSIVE SumOver(_, _, _, _)
\* The sum of TermScore over the pages pgs and, for each, the terms ts.
SumOver(d, pgs, ts, all) ==
    IF pgs = {} THEN 0
    ELSE LET pg == CHOOSE x \in pgs : TRUE
         IN IF ts = {} THEN SumOver(d, pgs \ {pg}, all, all)
            ELSE LET t == CHOOSE x \in ts : TRUE
                 IN TermScore(d, pg, t) + SumOver(d, pgs, ts \ {t}, all)

\* The terms of a query: its words of 3 characters or more, in lower case.
TermSet(query) ==
    {Lower[query[k]] : k \in {x \in 1..Len(query) : WordLen[query[x]] >= 3}}

\* The score the claim gives the host row h for the query.
HostScore(d, h, query) ==
    SumOver(d, {pg.id : pg \in {x \in d.pages : x.host_id = h.id}},
            TermSet(query), TermSet(query))

\* The pages of host row h that hold a term of the query.
MatchingPages(d, h, query) ==
    {pg.id : pg \in {x \in d.pages :
                        /\ x.host_id = h.id
                        /\ \E t \in TermSet(query) : PageTermRows(d, x.id, t) # {}}}

\* The active hosts with a page that holds a term of the query.
MatchingHosts(d, query) ==
    {h \in d.hosts : h.is_active /\ MatchingPages(d, h, query) # {}}

\* C18: a search that returns normally returns only active hosts, each with
\* score = the sum over its pages and over the query's terms of page frequency
\* x total_occurrences, in order of score descending and then of matching page
\* count descending; so a host whose page holds the term 5 times comes before a
\* host whose page holds it 2 times.
C18_ScoreAndOrder ==
    (SearchEnded /\ srch.fault # "store") =>
        LET res == srch.ret.results
        IN /\ \A k \in 1..Len(res) :
                 \E h \in db.hosts :
                    /\ h.ip = res[k].ip_address
                    /\ h.is_active
                    /\ res[k].score = HostScore(db, h, srch.query)
                    /\ res[k].page_count = Cardinality(MatchingPages(db, h, srch.query))
           /\ (srch.offset = 0 /\ Len(res) = 2) =>
                 \/ res[1].score > res[2].score
                 \/ res[1].score = res[2].score /\ res[1].page_count >= res[2].page_count
           /\ (/\ srch.query = << "Server" >> /\ srch.offset = 0
               /\ srch.limit >= 2
               /\ \A h \in db.hosts : h.is_active
               /\ {pk \in db.page_keywords : pk.keyword_id = 1}
                     = {[page_id |-> 1, keyword_id |-> 1, frequency |-> 5],
                        [page_id |-> 2, keyword_id |-> 1, frequency |-> 2]})
                 => /\ Len(res) = 2
                    /\ res[1].ip_address = 1 /\ res[1].score = 50
                    /\ res[2].ip_address = 2 /\ res[2].score = 20

\* search('Server') has returned host 1 (frequency 5, score 50) before host 2
\* (frequency 2, score 20), on a store whose third page matches nothing.
C18_Witness ==
    /\ SearchEnded
    /\ srch.query = << "Server" >>
    /\ Len(srch.ret.results) = 2
    /\ srch.ret.results[1] = [ip_address |-> 1, score |-> 50, page_count |-> 1]
    /\ srch.ret.results[2] = [ip_address |-> 2, score |-> 20, page_count |-> 1]

\* C19: a search that returns normally returns at most `limit` results, the
\* positions offset+1 .. offset+limit of a full ranking of the matching active
\* hosts, and total_count is the number of matching active hosts, whatever the
\* limit and offset.
C19_PageOfRanking ==
    (SearchEnded /\ srch.fault # "store") =>
        LET res == srch.ret.results
            M == MatchingHosts(db, srch.query)
            n == Cardinality(M)
            rest == IF n > srch.offset THEN n - srch.offset ELSE 0
        IN /\ Len(res) <= srch.limit
           /\ Len(res) = (IF rest < srch.limit THEN rest ELSE srch.limit)
           /\ srch.ret.total_count = n
           /\ \E full \in Orderings(M) :
                 /\ \A x, y \in 1..n : x < y =>
                       HostScore(db, full[x], srch.query) >= HostScore(db, full[y], srch.query)
                 /\ \A k \in 1..Len(res) :
                       res[k].ip_address = full[srch.offset + k].ip

\* A search with offset 1 and limit 1 has returned the second of two matching
\* hosts.
C19_Witness ==
    /\ SearchEnded
    /\ srch.offset = 1 /\ srch.limit = 1
    /\ srch.ret.total_count = 2
    /\ Len(srch.ret.results) = 1
    /\ srch.ret.results[1].score = 20

\* C20 (as stated): when the store faults during search or search_by_domain,
\* the call returns no result, total_count 0 and the error marker, and no
\* exception reaches the caller.
C20_FaultGivesError ==
    (srch.pc = "returned" /\ srch.fault # "none") =>
        /\ srch.ret.results = << >>
        /\ srch.ret.total_count = 0
        /\ srch.ret.error
        /\ ~srch.ret.raised

\* C20 (amended): when the connection or a query of search or search_by_domain
\* faults, the call returns no result, total_count 0 and the error marker; when
\* only the search_history INSERT of search faults, search returns its results
\* and total count without an error marker; in no case does an exception
\* reach the caller.
C20_QueryFaultGivesError ==
    srch.pc = "returned" =>
        /\ ~srch.ret.raised
        /\ srch.fault = "store" =>
              /\ srch.ret.results = << >>
              /\ srch.ret.total_count = 0
              /\ srch.ret.error
        /\ srch.fault = "log" =>
              /\ ~srch.ret.error
              /\ srch.ret.total_count = Cardinality(MatchingHosts(db, srch.query))
              /\ Len(srch.ret.results) <= srch.ret.total_count

\* search_by_domain has returned the error dict after a store fault, on a
\* store in which a host matches the domain.
C20_Witness ==
    /\ srch.pc = "returned"
    /\ srch.fn = "search_by_domain"
    /\ srch.query = << "example" >>
    /\ srch.fault = "store"
    /\ srch.ret.error
    /\ \E h \in db.hosts : h.is_active /\ DomainLike(h.domain, "example")

\* The pages stored for an address: process_ip writes the address into
\* pages.url.
PagesOfAddress(d, ip) == {pg \in d.pages : pg.url = ip}

Unprocessed(a) ==
    \/ \E i \in 1..Len(task_queue) : task_queue[i] = a
    \/ \E w \in Workers : wip[w] = a

\* get_next_ip_batch of start_crawling thread o returns in this step.
ClaimStep(o) == opc[o] = "loop" /\ opc'[o] \in {"put", "sleep", "sleep_after_fault"}

TotalWritten(o) == opc[o] = "put" /\ opc'[o] = "join"

Live(w) == wpc[w] \notin {"unstarted", "exited"}

Paused == active /\ stop_event

C26_ClaimBatchFrame ==
    [][\A o \in Orchs :
         ClaimStep(o) =>
            /\ Cardinality(obatch'[o]) <= batch_size
            /\ \A a \in obatch'[o] :
                  /\ db.crawl_queue[a] = << "pending" >>
                  /\ db'.crawl_queue[a] = << "in-progress" >>
            /\ \A a \in Addr \ obatch'[o] : db'.crawl_queue[a] = db.crawl_queue[a]
            /\ db' = [db EXCEPT !.crawl_queue = db'.crawl_queue]]_vars

\* get_next_ip_batch has returned a full batch, now in-progress, and left a
\* further pending entry pending.
C26_Witness ==
    \E o \in Orchs :
        /\ opc[o] = "put"
        /\ Cardinality(obatch[o]) = batch_size
        /\ \A a \in obatch[o] : db.crawl_queue[a] = << "in-progress" >>
        /\ \E b \in Addr \ obatch[o] : db.crawl_queue[b] = << "pending" >>

\* One step of a queue entry's status along pending -> in-progress ->
\* completed | failed, or no change.
StatusForward(old, new) ==
    \/ new = old
    \/ old = "pending" /\ new = "in-progress"
    \/ old = "in-progress" /\ new \in {"completed", "failed"}

\* C27: a crawl_queue row is never deleted and its status only moves forward
\* along pending -> in-progress -> completed or failed: a completed or failed
\* row keeps its status, and no row returns to an earlier status.
C27_StatusOnlyForward ==
    [][\A a \in Addr :
         /\ Len(db'.crawl_queue[a]) >= Len(db.crawl_queue[a])
         /\ \A i \in 1..Len(db.crawl_queue[a]) :
               StatusForward(db.crawl_queue[a][i], db'.crawl_queue[a][i])]_vars

\* The queue holds a completed and a failed entry, and the dispatch loop is
\* about to claim or reseed again.
C27_Witness ==
    /\ task_queue = << >>
    /\ db.crawl_state # {}
    /\ \E a, b \in Addr :
          /\ db.crawl_queue[a] = << "completed" >>
          /\ db.crawl_queue[b] = << "failed" >>

\* The addresses a worker is processing: from the start of crawl_ip to the
\* end of process_ip.
InProcess == {wip[w] : w \in {x \in Workers : wpc[x] \in {"probe", "write"}}}

\* C28: an address is in currently_scanning exactly while a worker is between
\* the start of its probe and the end of process_ip, whatever the outcome; so
\* the set is empty when no worker is processing an address, and it never has
\* more members than there are running workers.
C28_InFlightSet ==
    /\ currently_scanning = InProcess
    /\ Cardinality(currently_scanning) <= Cardinality({w \in Workers : Live(w)})

\* process_ip has ended on a store fault and its address has left
\* currently_scanning, while another worker is in the middle of a probe.
C28_Witness ==
    \E w1, w2 \in Workers :
        /\ wpc[w1] = "done" /\ wfault[w1]
        /\ wpc[w2] = "probe"
        /\ currently_scanning = {wip[w2]}
        /\ wip[w1] # wip[w2]

\* C29: generate_random_ips ends after at most 20 x count draws (every turn of
\* its loop is one draw more, and the draws never exceed the budget); what it
\* returns holds no address twice and at most count addresses; and when the
\* budget is used up first, it returns the addresses found so far.
C29_GenerateBounded ==
    /\ [](gen.pc \in {"loop", "returned"} =>
            gen.attempts <= AttemptsPerAddress * gen.count)
    /\ [](gen.pc = "returned" =>
            /\ Len(gen.ret) <= gen.count
            /\ \A i, j \in 1..Len(gen.ret) : gen.ret[i] = gen.ret[j] => i = j
            /\ Range(gen.ret) = gen.results)
    /\ [][(gen.pc = "loop" /\ gen'.pc = "loop") =>
            gen'.attempts = gen.attempts + 1]_vars

\* The budget ran out with one of the two addresses asked for found, and that
\* one address was returned.
C29_Witness ==
    /\ gen.pc = "returned" /\ ~gen.raised
    /\ gen.attempts = AttemptsPerAddress * gen.count
    /\ Len(gen.ret) = 1
    /\ gen.count = 2

\* C30: a worker ends only at its loop test with the stop signal set, or on
\* pulling a sentinel; once it has pulled an address it goes through the probe
\* and process_ip whatever fails, then signals task_done for it (the count of
\* unfinished items goes down by one) and is back at its loop test.
C30_WorkerSurvivesFaults ==
    [][\A w \in Workers :
         /\ (Live(w) /\ wpc'[w] = "exited") =>
                \/ wpc[w] = "check" /\ stop_event
                \/ wpc[w] = "get" /\ task_queue # << >> /\ Head(task_queue) = Sentinel
         /\ (wpc[w] = "probe" /\ wpc'[w] # "probe") => wpc'[w] = "write"
         /\ (wpc[w] = "write" /\ wpc'[w] # "write") => wpc'[w] = "done"
         /\ (wpc[w] = "done" /\ wpc'[w] # "done") =>
                /\ wpc'[w] = "check"
                /\ unfinished' = unfinished - 1]_vars

\* A worker whose probe failed and whose store transaction then raised is
\* about to signal task_done, and the stop signal is not set.
C30_Witness ==
    \E w \in Workers :
        /\ wpc[w] = "done" /\ wfault[w] /\ wres[w] = NoResult
        /\ ~stop_event /\ unfinished > 0

\* The queue entry of address a is completed or failed in the store.
Recorded(a) ==
    \E i \in 1..Len(db.crawl_queue[a]) : db.crawl_queue[a][i] \in {"completed", "failed"}

\* No stop and no pause: stop_event is never set.  No store fault: process_ip
\* never meets one, and neither does get_next_ip_batch.
NoStoreFault ==
    /\ \A w \in Workers : ~wfault[w]
    /\ \A o \in Orchs : opc[o] # "sleep_after_fault"

\* C31: in a run with no stop, no pause and no store fault, every address
\* that get_next_ip_batch has returned eventually has its queue entry
\* completed or failed in the store.
C31_ClaimedEventuallyRecorded ==
    ([]~stop_event /\ []NoStoreFault) =>
        \A a \in Addr : (claimCount[a] > 0) ~> Recorded(a)

\* C32: the worker threads running at any moment are never more than
\* max_threads, whatever start, stop, pause and resume requests arrive.
C32_LiveWorkersBounded ==
    Cardinality({w \in Workers : Live(w)}) <= max_threads

\* The start_crawling thread o is in its dispatch loop and its next step
\* claims a batch or writes the store: it passed the loop test, or it is at
\* the test and the test holds.
Dispatching(o) ==
    \/ opc[o] \in {"put", "sleep", "sleep_after_fault"}
    \/ opc[o] = "loop" /\ active /\ ~stop_event

\* C33: at most one dispatch loop is active at any time: no two
\* start_crawling threads are claiming batches or writing crawl_state in the
\* same period.
C33_SingleDispatchLoop ==
    Cardinality({o \in Orchs : Dispatching(o)}) <= 1

\* start_crawling thread o was scheduled after a stop_crawling had ended
\* (stale holds the starts scheduled by the end of that stop).
StartedAfterStop(o) == \E a \in Addr : stale[a] > 0 /\ o > stale[a]

\* C34: in a run started after an earlier stop, once every address of the
\* batch the loop put on task_queue has been processed, task_queue.join()
\* returns: the sentinels of the stop do not hold it (runs in which the later
\* run is itself stopped or paused are set aside).  The first start_crawling
\* scheduled has no stop before it.
C34_JoinReturnsAfterRestart ==
    \A o \in Orchs \ {1} :
        (/\ opc[o] = "join" /\ StartedAfterStop(o) /\ active /\ ~stop_event
         /\ \A a \in obatch[o] : ~Unprocessed(a))
            ~> (opc[o] # "join" \/ ~active \/ stop_event)

\* start_crawling thread o starts its worker threads in this step.
LaunchStep(o) == opc[o] = "populate" /\ opc'[o] = "loop"

\* C35: when a start_crawling scheduled after an earlier stop_crawling
\* launches its workers, task_queue holds nothing that the earlier run left
\* there; in particular it holds no sentinel of that stop, which would end the
\* worker that pulls it.
C35_NoSentinelAtLaunch ==
    [][\A o \in Orchs :
         (LaunchStep(o) /\ StartedAfterStop(o)) => Sentinel \notin Range(task_queue)]_vars

\* The start_crawling threads that hold address a in a batch they have
\* claimed and not yet put on task_queue.
HoldingToPut(a) == {o \in Orchs : opc[o] = "put" /\ a \in obatch[o]}

\* C36: an address that get_next_ip_batch returned is put on task_queue
\* exactly once, by the loop that claimed it and as that loop's next step, and
\* crawl_ip is started for it at most once, by one worker; no address is
\* probed twice, in one run or across runs.
C36_ProbedAtMostOnce ==
    \A a \in Addr :
        /\ claimCount[a] <= 1
        /\ putCount[a] = claimCount[a] - Cardinality(HoldingToPut(a))
        /\ probeCount[a] <= putCount[a]
        /\ Cardinality({w \in Workers : wip[w] = a}) <= 1

\* An address was claimed, put and probed in the first run; the loop of a
\* later run has asked for a batch since and did not get it again.
C36_Witness ==
    \E a \in Addr :
        /\ probeCount[a] = 1 /\ putCount[a] = 1
        /\ \A w \in Workers : wip[w] # a
        /\ oret[1] = "True"
        /\ opc[2] = "sleep" /\ obatch[2] = {}
        /\ db.crawl_queue[a] # << >>

C38_PausedStatusKept ==
    [][(Paused /\ CrawlStatus(db) = "paused" /\ CrawlStatus(db') # "paused") =>
          \/ ~stop_event' /\ opc' = opc
          \/ \E o \in Orchs : opc[o] = "activate" /\ opc'[o] = "populate"]_vars

\* The last n items of a sequence, oldest first (all of them when it has
\* fewer).
LastItems(seq, n) ==
    SubSeq(seq, (IF Len(seq) > n THEN Len(seq) - n ELSE 0) + 1, Len(seq))

\* C39: get_recent_events(limit) returns at most limit events for every
\* limit >= 0, the most recent ones, oldest first; with limit 0 it returns
\* none.
C39_RecentEventsLimit ==
    (srch.pc = "returned" /\ srch.fn = "get_recent_events") =>
        /\ Len(srch.ret) <= srch.limit
        /\ srch.ret = LastItems(srch.events, srch.limit)

\* The types of the events appended for address a, in the order appended.
RECURSIVE TypesOf(_, _)
TypesOf(events, a) ==
    IF events = << >> THEN << >>
    ELSE (IF Head(events).ip = a THEN << Head(events).type >> ELSE << >>)
             \o TypesOf(Tail(events), a)

IsPrefix(s, t) == Len(s) <= Len(t) /\ \A i \in 1..Len(s) : s[i] = t[i]

\* C40: the events appended for a processed address come in a fixed order:
\* one scan_start, then exactly one of detected, failed or error, and a stored
\* event only after detected; no stored event follows failed or error.
C40_EventOrder ==
    \A a \in Addr :
        \E full \in { << "scan_start", "detected", "stored" >>,
                      << "scan_start", "failed" >>,
                      << "scan_start", "error" >> } :
            /\ IsPrefix(TypesOf(pushed, a), full)
            /\ (\A w \in Workers : wip[w] # a) =>
                   TypesOf(pushed, a) \in {<< >>, full, << "scan_start", "detected" >>}

\* One address was probed, detected and stored, the other one failed, and the
\* scan_start of the second came between the events of the first.
C40_Witness ==
    \E a, b \in Addr :
        /\ TypesOf(pushed, a) = << "scan_start", "detected", "stored" >>
        /\ TypesOf(pushed, b) = << "scan_start", "failed" >>
        /\ pushed[1].ip = a /\ pushed[2].ip = b

=============================================================================
